---- MODULE Spec2Model ----
(***************************************************************************)
(* State-machine model of js/app.js (CSC Database Demo).                   *)
(*                                                                         *)
(* Persistent state: the IndexedDB database CountryStateCityDB (version,   *)
(* object stores, indexes, records).  Session state: one page load (the    *)
(* db handle, the position of initializeData, citiesCache,                 *)
(* currentSelections, the rendered columns, the filterCities calls in      *)
(* flight).  The remote snapshot source is an input fixed for a behaviour. *)
(***************************************************************************)
EXTENDS Integers, Sequences, FiniteSets, TLC

\* ------------------------------------------------------------------------
\* Configuration (app.js 10-13)
\* ------------------------------------------------------------------------

DB_VERSION == 2

COLLECTIONS == <<"regions", "subregions", "countries", "states">>

CollectionSet == {COLLECTIONS[i] : i \in 1..Len(COLLECTIONS)}

\* progressStep = 100 / COLLECTIONS.length
progressStep == 100 \div Len(COLLECTIONS)

\* ------------------------------------------------------------------------
\* Bounds of the model
\* ------------------------------------------------------------------------

\* filterCities calls that may be awaiting their fetch at the same time
MaxCalls == 2

\* filterSubregions, filterCountries, filterStates and toggleModal calls that
\* may be awaiting their IndexedDB request at the same time
MaxQueries == 1

\* ------------------------------------------------------------------------
\* Values
\* ------------------------------------------------------------------------

\* a property that is missing from a JSON record (JavaScript undefined)
Undefined == 0 - 1

\* currentSelections fields start as null
Null == 0 - 2

Range(s) == {s[i] : i \in 1..Len(s)}

\* ------------------------------------------------------------------------
\* Remote snapshot source
\* ------------------------------------------------------------------------

\* a well-formed snapshot of each collection
GoodSnapshot(c) ==
  CASE c = "regions"    -> << [id |-> 1], [id |-> 2] >>
    [] c = "subregions" -> << [id |-> 10, region_id |-> 1],
                              [id |-> 11, region_id |-> 1] >>
    [] c = "countries"  -> << [id |-> 100, subregion_id |-> 10, iso2 |-> "IN"],
                              [id |-> 101, subregion_id |-> 11, iso2 |-> "JP"] >>
    [] c = "states"     -> << [id |-> 100, country_id |-> 100, country_code |-> "IN"],
                              [id |-> 200, country_id |-> 100, country_code |-> "IN"] >>

\* the shapes a snapshot served by the source can have: well formed, an
\* empty array, two records with the same id, a record without an id
Variants == {"good", "empty", "dup", "noid"}

Snapshot(c, v) ==
  CASE v = "good"  -> GoodSnapshot(c)
    [] v = "empty" -> << >>
    [] v = "dup"   -> << GoodSnapshot(c)[1],
                         [GoodSnapshot(c)[2] EXCEPT !.id = GoodSnapshot(c)[1].id] >>
    [] v = "noid"  -> << GoodSnapshot(c)[1],
                         [GoodSnapshot(c)[2] EXCEPT !.id = Undefined] >>

\* HTTP statuses of a response that is not ok
HttpErrors == {404, 500}

\* how one fetch can settle: response.ok and a parseable body, response not
\* ok, fetch() rejected, response.json() rejected
FetchOutcomes == {"ok", "http_error", "network_error", "parse_error"}

\* the ways a fetch fails, with the status where there is a response
FetchFailures ==
  {[kind |-> "http_error", code |-> code] : code \in HttpErrors}
    \cup {[kind |-> "network_error", code |-> 0], [kind |-> "parse_error", code |-> 0]}

VARIABLES
  \* --- remote
  remote,        \* remote[c]: the variant of c's snapshot the source serves
  \* --- persistent (IndexedDB)
  dbVersion,     \* stored version of the database, 0 when it does not exist
  storeNames,    \* db.objectStoreNames
  indexNames,    \* indexNames[c]: the indexes of object store c
  stores,        \* stores[c]: the records of object store c
  deletePending, \* a deleteDatabase request of a call made outside the reset
                 \* branch has not been answered yet
  \* --- session (one page load)
  db,            \* TRUE when the db handle is set (to an open or a closed connection)
  upgradeFrom,   \* the schema the upgrade of the pending open request started
                 \* from, NoUpgrade when onupgradeneeded has not run for it
  urlReset,      \* the URL of the page carries reset=true
  navigation,    \* the query string last assigned to window.location.search:
                 \* "reset" (reset=true), "plain" (the empty string), "none"
  pc,            \* position of initializeData
  idx,           \* position of the for loop over COLLECTIONS
  statReads,     \* updateStatistics is running: how many of its awaited
                 \* getAllFromStore calls have resolved
  progress,      \* local variable progress
  status,        \* what updateLoadingProgress last showed
  failure,       \* the error initializeData caught: its kind and where it arose
  display,       \* display[column]: what the column's tbody shows
  stats,         \* the statistics bar
  citiesCache,   \* citiesCache[code]: the city array cached for a country code
  currentSelections,
  calls,         \* the filterCities calls awaiting their fetch, in the order
                 \* in which they started, then idle slots
  queries,       \* the calls awaiting their IndexedDB request, in the order
                 \* in which they started, then idle slots
  modal,         \* the detail modal: shown or not, and the item it shows
  \* --- history
  runCounted,    \* collections whose count was queried in this run
  runFetched,    \* collections whose snapshot fetch was started in this run
  runInserted,   \* collections whose insert transaction completed in this run
  runSkipped,    \* collections whose step skipped the fetch in this run
  completed,     \* collections whose seed step has completed since the last delete
  deleted,       \* the database was deleted and not opened since
  reopened,      \* this session opened the database first after a delete
  prev,          \* summary of the previous session's run
  lastNav,       \* the navigation step taken last in this session: a step of
                 \* filterCities, the step of a filter up to its await (with
                 \* whether it changed currentSelections), or another step
  cityFailed     \* country codes whose city fetch has failed in this session

vars == << remote, urlReset, navigation, dbVersion, storeNames, indexNames, stores, deletePending, db, upgradeFrom, pc, idx, statReads,
           progress, status, failure, display, stats, runCounted, runFetched,
           runInserted, runSkipped, completed, deleted, reopened, prev,
           citiesCache, currentSelections, calls, lastNav, cityFailed,
           queries, modal >>

drillVars == << queries, modal >>

navVars == << citiesCache, currentSelections, calls, lastNav, cityFailed,
              drillVars >>

persistentVars == << dbVersion, storeNames, indexNames, stores, deletePending >>

\* no upgrade of a pending open request
NoUpgrade ==
  [pending |-> FALSE, version |-> 0, storeNames |-> {},
   indexNames |-> [c \in CollectionSet |-> {}]]

\* the versionchange transaction of the pending open request is undone
UpgradeRolledBack ==
  /\ dbVersion' = upgradeFrom.version
  /\ storeNames' = upgradeFrom.storeNames
  /\ indexNames' = upgradeFrom.indexNames

\* the page holds an open connection: the open request was answered with
\* success.  (Before that db can be set by onupgradeneeded, to a connection
\* that is upgrading; when the open request then fails, to one that is
\* closed.)
ConnectionOpen == db /\ pc # "opening" /\ failure.kind # "open"

\* ------------------------------------------------------------------------
\* IndexedDB helpers
\* ------------------------------------------------------------------------

KeysOf(S) == {r.id : r \in S}

\* a key path that yields no valid key makes store.add throw DataError
ValidKey(item) == item.id # Undefined

\* position of the first item store.add throws on, 0 when there is none
FirstInvalidKey(data) ==
  IF \A i \in 1..Len(data) : ValidKey(data[i]) THEN 0
  ELSE CHOOSE i \in 1..Len(data) :
         /\ ~ValidKey(data[i])
         /\ \A j \in 1..(i - 1) : ValidKey(data[j])

\* the requests the loop 'for (const item of data) store.add(item)' places
\* before it ends or throws
IssuedAdds(data) ==
  IF FirstInvalidKey(data) = 0 THEN data
  ELSE SubSeq(data, 1, FirstInvalidKey(data) - 1)

\* an add request fails with ConstraintError when its key is already in the
\* store or was added earlier in the same transaction; the unhandled error
\* aborts the transaction
HasConstraintError(existing, adds) ==
  \/ \E i \in 1..Len(adds) : adds[i].id \in KeysOf(existing)
  \/ \E i, j \in 1..Len(adds) : i < j /\ adds[i].id = adds[j].id

\* contents of the store once the transaction holding the requests `adds`
\* has finished: all of them, or none when it aborted
TransactionResult(existing, adds) ==
  IF HasConstraintError(existing, adds) THEN existing
  ELSE existing \cup Range(adds)

\* store.getAll(): the records in key order
RECURSIVE SortById(_)
SortById(S) ==
  IF S = {} THEN << >>
  ELSE LET m == CHOOSE r \in S : \A q \in S : r.id <= q.id
       IN  << m >> \o SortById(S \ {m})

\* the indexes onupgradeneeded creates with a new object store (app.js 123-135)
SchemaIndexes(c) ==
  CASE c = "regions"    -> {}
    [] c = "subregions" -> {"region_id"}
    [] c = "countries"  -> {"subregion_id", "iso2"}
    [] c = "states"     -> {"country_id", "country_code"}

\* variant: the last collection is left out of the upgrade
StoresToCreateButLast ==
  {c \in CollectionSet : c \notin storeNames /\ c # COLLECTIONS[Len(COLLECTIONS)]}

\* the object stores onupgradeneeded creates: those not yet present
StoresToCreate == {c \in CollectionSet : c \notin storeNames}

\* ------------------------------------------------------------------------
\* Session start: window 'load' runs initializeData (app.js 816-822, 211-219)
\* ------------------------------------------------------------------------

Columns == {"regions", "subregions", "countries", "states", "cities"}

InitialDisplay == [col \in Columns |-> [kind |-> "initial", rows |-> << >>]]

InitialStats == [c \in CollectionSet |-> Undefined]

NoFailure == [kind |-> "none", collection |-> "", code |-> 0]

NoStatus == [percent |-> 0, kind |-> "initial", collection |-> "", code |-> 0]

\* what is remembered of a session's run when the next page load starts: how
\* it ended and, for a run that ended, what it fetched and inserted
RunSummary ==
  IF pc \in {"done", "error", "committing"}
  THEN [pc |-> IF pc = "done" THEN "done" ELSE "error",
        fetched |-> runFetched, inserted |-> runInserted]
  ELSE [pc |-> "unfinished", fetched |-> {}, inserted |-> {}]

\* ------------------------------------------------------------------------
\* City overlay: values (app.js 16-22, 620-644)
\* ------------------------------------------------------------------------

\* country codes of the model: IN has cities in two states, AQ has none
Codes == {"IN", "AQ"}

\* state ids filterCities is called with
StateIds == {100, 200}

\* cities/{countryCode}.json; two records of IN carry the same id, so that the
\* record a lookup by id stops at can be told from a later one
RemoteCities(code) ==
  CASE code = "IN" -> << [id |-> 1, state_id |-> 100],
                         [id |-> 2, state_id |-> 200],
                         [id |-> 3, state_id |-> 100],
                         [id |-> 3, state_id |-> 200] >>
    [] code = "AQ" -> << >>

\* currentSelections.country holds null or { id, code }
NoCountry == [id |-> Null, code |-> ""]

NoEntry == [present |-> FALSE, cities |-> << >>]

Entry(cities) == [present |-> TRUE, cities |-> cities]

\* the slots of the calls in flight after the call of slot k has settled: the
\* calls are kept in the order in which they started
Without(slots, k, idle) ==
  [j \in DOMAIN slots |->
     IF j < k THEN slots[j]
     ELSE IF j + 1 \in DOMAIN slots THEN slots[j + 1] ELSE idle]

IdleCall == [pc |-> "idle", stateId |-> Null, code |-> ""]

NoNav == [op |-> "none", stateId |-> Null, code |-> "", phase |-> "none", fetch |-> FALSE, changed |-> FALSE]

\* a slot of queries that holds no call
IdleQuery == [op |-> "idle", store |-> "", id |-> Null, code |-> "", waits |-> FALSE]

\* the modal as index.html ships it: hidden (class opacity-0), no item shown
NoItem == [id |-> Null]

ClosedModal == [open |-> FALSE, item |-> NoItem]

\* the navigation state of a page that has just been loaded
FreshNavigation ==
  /\ citiesCache' = [code \in Codes |-> NoEntry]
  /\ currentSelections' = [region |-> Null, subregion |-> Null, country |-> NoCountry, state |-> Null]
  /\ calls' = [k \in 1..MaxCalls |-> IdleCall]
  /\ lastNav' = NoNav
  /\ cityFailed' = {}
  /\ queries' = [k \in 1..MaxQueries |-> IdleQuery]
  /\ modal' = ClosedModal

\* the seeding state of a page that has just been loaded
FreshRun ==
  /\ db' = FALSE
  /\ upgradeFrom' = NoUpgrade
  /\ idx' = 0
  /\ statReads' = 0
  /\ progress' = 0
  /\ status' = NoStatus
  /\ failure' = NoFailure
  /\ display' = InitialDisplay
  /\ stats' = InitialStats
  /\ runCounted' = {}
  /\ runFetched' = {}
  /\ runInserted' = {}
  /\ runSkipped' = {}
  /\ reopened' = FALSE

\* indexedDB.deleteDatabase takes effect: the database is gone
DatabaseDeleted ==
  /\ dbVersion' = 0
  /\ storeNames' = {}
  /\ indexNames' = [c \in CollectionSet |-> {}]
  /\ stores' = [c \in CollectionSet |-> {}]
  /\ completed' = {}
  /\ deleted' = TRUE

\* What the requests of the page that is left do to the database.  Leaving
\* the page closes its connection.  A deleteDatabase request that was not
\* answered yet (the one of the reset branch, app.js 216, or one placed by
\* another call) is carried out before the requests of the new page, or is
\* lost with the page when the page ends in the task that placed it.  A
\* transaction the page left open has committed or is aborted: the upgrade of
\* an open request that was not answered yet, the adds of the seeding step
\* (app.js 245-254; a transaction with a ConstraintError can only abort), the
\* adds issued before a DataError.
PageLeft ==
  \/ /\ deletePending \/ pc = "deleting" \/ (pc = "queued" /\ urlReset)
     /\ DatabaseDeleted
  \/ UNCHANGED << dbVersion, storeNames, indexNames, stores, completed, deleted >>
  \/ /\ upgradeFrom.pending
     /\ UpgradeRolledBack
     /\ UNCHANGED << stores, completed, deleted >>
  \/ /\ pc = "inserting"
     /\ LET c == COLLECTIONS[idx]
            data == Snapshot(c, remote[c])
        IN  /\ ~HasConstraintError(stores[c], data)
            /\ stores' = [stores EXCEPT ![c] = TransactionResult(@, data)]
            /\ completed' = completed \cup {c}
     /\ UNCHANGED << dbVersion, storeNames, indexNames, deleted >>
  \/ /\ pc = "committing"
     /\ LET c == COLLECTIONS[idx]
            data == Snapshot(c, remote[c])
        IN  stores' = [stores EXCEPT ![c] = TransactionResult(@, IssuedAdds(data))]
     /\ UNCHANGED << dbVersion, storeNames, indexNames, completed, deleted >>

\* The page is loaded (again) with or without reset=true in its URL, whether
\* or not an assignment to window.location.search (app.js 217, 561) asked for
\* a load: app.js is evaluated, every session variable starts over and the
\* listener of the window's load event is registered (app.js 816).  The
\* functions of the page can be called from then on; initializeData has not
\* started.
StartSession(reset) ==
  /\ navigation' = "none"
  /\ urlReset' = reset
  /\ pc' = "evaluated"
  /\ prev' = RunSummary
  /\ FreshRun
  /\ FreshNavigation
  /\ PageLeft
  /\ deletePending' = FALSE
  /\ UNCHANGED remote

\* the first await of initializeData: deleteDatabase() when the URL carries
\* reset=true (app.js 214-216), openDB() otherwise (222)
FirstAwait == IF urlReset THEN "deleting" ELSE "opening"

\* The load event: the listener calls initializeData (app.js 816-822), which
\* runs up to its first await.  The request it places is answered after a
\* deleteDatabase request that was placed before it.
WindowLoad ==
  /\ pc = "evaluated"
  /\ pc' = IF deletePending THEN "queued" ELSE FirstAwait
  /\ UNCHANGED navVars
  /\ UNCHANGED << remote, urlReset, navigation, persistentVars, db, upgradeFrom, idx, statReads,
                  progress, status, failure, display, stats, runCounted,
                  runFetched, runInserted, runSkipped, completed, deleted,
                  reopened, prev >>

\* ------------------------------------------------------------------------
\* deleteDatabase (app.js 86-98) in the reset branch (app.js 215-219)
\* ------------------------------------------------------------------------

\* request.onsuccess: the database is gone; window.location.search = ''
\* asks for the page to be loaded again and initializeData returns
DeleteSuccess ==
  /\ pc = "deleting"
  /\ DatabaseDeleted
  /\ pc' = "navigating"
  /\ navigation' = "plain"
  /\ UNCHANGED navVars
  /\ UNCHANGED << remote, urlReset, deletePending, db, upgradeFrom, idx, statReads, progress, status, failure, display, stats,
                  runCounted, runFetched, runInserted, runSkipped, reopened, prev >>

\* request.onerror: the rejection leaves initializeData (the await is outside
\* the try block)
DeleteError ==
  /\ pc = "deleting"
  /\ pc' = "rejected"
  /\ UNCHANGED navVars
  /\ UNCHANGED << remote, urlReset, navigation, persistentVars, db, upgradeFrom, idx, statReads, progress, status, failure,
                  display, stats, runCounted, runFetched, runInserted,
                  runSkipped, completed, deleted, reopened, prev >>

\* deleteDatabase() called outside the reset branch (the function is global:
\* the console, app.js 1121): the request is placed
CallDeleteDatabase ==
  /\ ~deletePending
  /\ deletePending' = TRUE
  /\ UNCHANGED navVars
  /\ UNCHANGED << remote, urlReset, navigation, dbVersion, storeNames, indexNames, stores, db, upgradeFrom, pc,
                  idx, statReads, progress, status, failure, display, stats, runCounted,
                  runFetched, runInserted, runSkipped, completed, deleted,
                  reopened, prev >>

\* request.onsuccess of that request.  It is answered only when the page
\* holds no open connection (the page has no versionchange handler that would
\* close it) and after the requests placed before it; the request that
\* initializeData placed behind it is the next to be answered.
PendingDeleteSuccess ==
  /\ deletePending
  /\ ~ConnectionOpen
  /\ pc \notin {"opening", "deleting"}
  /\ DatabaseDeleted
  /\ deletePending' = FALSE
  /\ pc' = IF pc = "queued" THEN FirstAwait ELSE pc
  /\ UNCHANGED navVars
  /\ UNCHANGED << remote, urlReset, navigation, db, upgradeFrom, idx, statReads, progress, status, failure, display,
                  stats, runCounted, runFetched, runInserted, runSkipped,
                  reopened, prev >>

\* request.onerror of that request: the promise rejects, nothing changes
PendingDeleteError ==
  /\ deletePending
  /\ ~ConnectionOpen
  /\ pc \notin {"opening", "deleting"}
  /\ deletePending' = FALSE
  /\ pc' = IF pc = "queued" THEN FirstAwait ELSE pc
  /\ UNCHANGED navVars
  /\ UNCHANGED << remote, urlReset, navigation, dbVersion, storeNames, indexNames, stores, db, upgradeFrom,
                  idx, statReads, progress, status, failure, display, stats, runCounted,
                  runFetched, runInserted, runSkipped, completed, deleted,
                  reopened, prev >>

\* ------------------------------------------------------------------------
\* initializeData: the seeding loop (app.js 221-275)
\* ------------------------------------------------------------------------

Loading(percent, c) ==
  [percent |-> percent, kind |-> "Loading", collection |-> c, code |-> 0]

\* catch: updateLoadingProgress(0, `Error: ${error.message}`).  Only the
\* message built at app.js 241 carries the collection's name and the status;
\* the messages of the platform's errors carry neither.
ErrorStatus(kind, c, code) ==
  IF kind = "http_error"
  THEN [percent |-> 0, kind |-> "Error", collection |-> c, code |-> code]
  ELSE [percent |-> 0, kind |-> "Error", collection |-> "", code |-> 0]

\* variants of the emptiness test: fetch whatever the count, fetch below two
NeedsSeedingAlways(count) == count >= 0

NeedsSeedingBelowTwo(count) == count < 2

\* 'if (count === 0)'
NeedsSeeding(count) == count = 0

\* top of the loop body for COLLECTIONS[i]: the progress report and the count
\* request (app.js 228-234)
EnterStep(i, percent) ==
  /\ idx' = i
  /\ UNCHANGED statReads
  /\ status' = Loading(percent, COLLECTIONS[i])
  /\ runCounted' = runCounted \cup {COLLECTIONS[i]}
  /\ pc' = "counting"

\* variant: the loop goes on without adding progressStep to progress
AdvanceNoProgress(i) ==
  /\ progress' = progress
  /\ IF i < Len(COLLECTIONS)
     THEN EnterStep(i + 1, progress)
     ELSE /\ idx' = i
          /\ UNCHANGED statReads
          /\ status' = [percent |-> 100, kind |-> "Complete", collection |-> "", code |-> 0]
          /\ pc' = "stats"
          /\ UNCHANGED runCounted

\* end of the loop body for COLLECTIONS[i]: progress += progressStep, then
\* the next iteration or, after the loop, updateLoadingProgress(100,
\* 'Complete!') and the call of updateStatistics (app.js 264-268)
Advance(i) ==
  /\ progress' = progress + progressStep
  /\ IF i < Len(COLLECTIONS)
     THEN EnterStep(i + 1, progress + progressStep)
     ELSE /\ idx' = i
          /\ UNCHANGED statReads
          /\ status' = [percent |-> 100, kind |-> "Complete", collection |-> "", code |-> 0]
          /\ pc' = "stats"
          /\ UNCHANGED runCounted

\* variant: regions are not rendered inside the loop
AfterSeedingNoRender(i) == Advance(i)

\* after the seeding of COLLECTIONS[i] settled: regions are read back and
\* rendered before the loop goes on (app.js 259-262)
AfterSeeding(i) ==
  IF COLLECTIONS[i] = "regions"
  THEN /\ pc' = "reading"
       /\ UNCHANGED << idx, statReads, progress, status, runCounted >>
  ELSE Advance(i)

\* request.onupgradeneeded (app.js 116-139), when the stored version is
\* older: db is assigned, the missing object stores are created with their
\* indexes; the open request is still to be answered
UpgradeNeeded ==
  /\ pc = "opening"
  /\ dbVersion < DB_VERSION
  /\ upgradeFrom' = [pending |-> TRUE, version |-> dbVersion,
                     storeNames |-> storeNames, indexNames |-> indexNames]
  /\ db' = TRUE
  /\ storeNames' = storeNames \cup StoresToCreate
  /\ indexNames' = [c \in CollectionSet |->
                      IF c \in StoresToCreate THEN SchemaIndexes(c)
                      ELSE indexNames[c]]
  /\ dbVersion' = DB_VERSION
  /\ UNCHANGED navVars
  /\ UNCHANGED << remote, urlReset, navigation, stores, deletePending, pc, idx, statReads, progress,
                  status, failure, display, stats, runCounted, runFetched,
                  runInserted, runSkipped, completed, deleted, reopened, prev >>

\* request.onsuccess: openDB resolves (app.js 111-114) and initializeData
\* goes on to the loop (app.js 224-234)
OpenSuccess ==
  /\ pc = "opening"
  /\ dbVersion = DB_VERSION
  /\ db' = TRUE
  /\ upgradeFrom' = NoUpgrade
  /\ reopened' = deleted
  /\ deleted' = FALSE
  /\ progress' = 0
  /\ EnterStep(1, 0)
  /\ UNCHANGED navVars
  /\ UNCHANGED << remote, urlReset, navigation, persistentVars, failure, display, stats,
                  runFetched, runInserted, runSkipped, completed, prev >>

\* variant: the error is reported and the run goes on to its completion
CatchAndComplete(kind, c, code) ==
  /\ pc' = "stats"
  /\ failure' = [kind |-> kind, collection |-> c, code |-> code]
  /\ status' = ErrorStatus(kind, c, code)

\* the catch block of initializeData
Catch(kind, c, code) ==
  /\ pc' = "error"
  /\ failure' = [kind |-> kind, collection |-> c, code |-> code]
  /\ status' = ErrorStatus(kind, c, code)

\* request.onerror: openDB rejects (app.js 107-109, catch 271-274).  When
\* onupgradeneeded ran for this request its transaction is undone, and db,
\* assigned there (app.js 118), keeps the connection, now closed.
OpenError ==
  /\ pc = "opening"
  /\ Catch("open", "", 0)
  /\ IF upgradeFrom.pending
     THEN UpgradeRolledBack
     ELSE UNCHANGED << dbVersion, storeNames, indexNames >>
  /\ upgradeFrom' = NoUpgrade
  /\ UNCHANGED navVars
  /\ UNCHANGED << remote, urlReset, navigation, stores, deletePending, db, idx, statReads, progress,
                  display, stats, runCounted, runFetched, runInserted,
                  runSkipped, completed, deleted, reopened, prev >>

\* variant: the fetch is started but not awaited, the loop goes on
CountSuccessNoAwait ==
  /\ pc = "counting"
  /\ LET c == COLLECTIONS[idx]
         count == Cardinality(stores[c])
     IN  /\ IF NeedsSeeding(count)
            THEN runFetched' = runFetched \cup {c} /\ UNCHANGED runSkipped
            ELSE runSkipped' = runSkipped \cup {c} /\ UNCHANGED runFetched
         /\ AfterSeeding(idx)
  /\ UNCHANGED navVars
  /\ UNCHANGED << remote, urlReset, navigation, persistentVars, db, upgradeFrom, failure, display, stats,
                  runInserted, completed, deleted, reopened, prev >>

\* countRequest.onsuccess: fetch when the store is empty, skip otherwise
CountSuccess ==
  /\ pc = "counting"
  /\ LET c == COLLECTIONS[idx]
         count == Cardinality(stores[c])
     IN  IF NeedsSeeding(count)
         THEN /\ pc' = "fetching"
              /\ runFetched' = runFetched \cup {c}
              /\ UNCHANGED << idx, statReads, progress, status, runCounted, runSkipped >>
         ELSE /\ runSkipped' = runSkipped \cup {c}
              /\ AfterSeeding(idx)
              /\ UNCHANGED runFetched
  /\ UNCHANGED navVars
  /\ UNCHANGED << remote, urlReset, navigation, persistentVars, db, upgradeFrom, failure, display, stats,
                  runInserted, completed, deleted, reopened, prev >>

\* the count request fails: the promise has no onerror and never settles
CountError ==
  /\ pc = "counting"
  /\ pc' = "hung"
  /\ UNCHANGED navVars
  /\ UNCHANGED << remote, urlReset, navigation, persistentVars, db, upgradeFrom, idx, statReads, progress, status, failure,
                  display, stats, runCounted, runFetched, runInserted,
                  runSkipped, completed, deleted, reopened, prev >>

\* variant: the failure is recorded but the loop goes on with the next
\* collection
FetchFailsAndGoesOn(kind, code) ==
  /\ pc = "fetching"
  /\ [kind |-> kind, code |-> code] \in FetchFailures
  /\ failure' = [kind |-> kind, collection |-> COLLECTIONS[idx], code |-> code]
  /\ progress' = progress + progressStep
  /\ IF idx < Len(COLLECTIONS)
     THEN /\ idx' = idx + 1
          /\ UNCHANGED statReads
          /\ runCounted' = runCounted \cup {COLLECTIONS[idx + 1]}
          /\ pc' = "counting"
     ELSE /\ pc' = "stats"
          /\ UNCHANGED << idx, statReads, runCounted >>
  /\ UNCHANGED navVars
  /\ UNCHANGED << remote, urlReset, navigation, persistentVars, db, upgradeFrom, status, display, stats,
                  runFetched, runInserted, runSkipped, completed,
                  deleted, reopened, prev >>

\* the snapshot fetch does not deliver data: the response is not ok, fetch
\* rejects or the body does not parse; the error is caught
FetchFails(kind, code) ==
  /\ pc = "fetching"
  /\ [kind |-> kind, code |-> code] \in FetchFailures
  /\ Catch(kind, COLLECTIONS[idx], code)
  /\ UNCHANGED navVars
  /\ UNCHANGED << remote, urlReset, navigation, persistentVars, db, upgradeFrom, idx, statReads, progress, display, stats,
                  runCounted, runFetched, runInserted, runSkipped, completed,
                  deleted, reopened, prev >>

\* the readwrite transaction of the seeding step is open on store c: a
\* readonly transaction created on c now is served only after it has ended
WriteLocked(c) == pc \in {"inserting", "committing"} /\ COLLECTIONS[idx] = c

\* a readonly transaction on store c was created before the readwrite
\* transaction of the seeding step and has not answered yet: the readwrite
\* transaction takes effect only after it
EarlierReadPending(c) ==
  \E k \in 1..MaxQueries :
    /\ queries[k].op # "idle"
    /\ queries[k].store = c
    /\ ~queries[k].waits

\* the error is reported as by Catch, and the transaction of the insert is
\* still to commit
CatchWhileCommitting(kind, c, code) ==
  /\ pc' = "committing"
  /\ failure' = [kind |-> kind, collection |-> c, code |-> code]
  /\ status' = ErrorStatus(kind, c, code)

\* the snapshot arrives and every record is handed to store.add; when add
\* throws (no valid key) the error is caught in the same task while the
\* transaction, never aborted, is left to commit the requests placed before
\* the throw
FetchOk ==
  /\ pc = "fetching"
  /\ LET c == COLLECTIONS[idx]
         data == Snapshot(c, remote[c])
     IN  IF FirstInvalidKey(data) = 0
         THEN /\ pc' = "inserting"
              /\ UNCHANGED << failure, status >>
         ELSE CatchWhileCommitting("add", c, 0)
  /\ UNCHANGED navVars
  /\ UNCHANGED << remote, urlReset, navigation, persistentVars, db, upgradeFrom, idx, statReads, progress,
                  display, stats, runCounted, runFetched, runInserted,
                  runSkipped, completed, deleted, reopened, prev >>

\* the transaction of an insert that threw commits the requests placed
\* before the throw; the run has ended in its catch block
CommitIssuedAdds ==
  /\ pc = "committing"
  /\ LET c == COLLECTIONS[idx]
         data == Snapshot(c, remote[c])
     IN  /\ ~EarlierReadPending(c)
         /\ stores' = [stores EXCEPT ![c] = TransactionResult(@, IssuedAdds(data))]
  /\ pc' = "error"
  /\ UNCHANGED navVars
  /\ UNCHANGED << remote, urlReset, navigation, dbVersion, storeNames, indexNames, deletePending, db, upgradeFrom,
                  idx, statReads, progress, status, failure, display, stats, runCounted,
                  runFetched, runInserted, runSkipped, completed, deleted,
                  reopened, prev >>

\* transaction.oncomplete
TransactionComplete ==
  /\ pc = "inserting"
  /\ LET c == COLLECTIONS[idx]
         data == Snapshot(c, remote[c])
     IN  /\ ~HasConstraintError(stores[c], data)
         /\ ~EarlierReadPending(c)
         /\ stores' = [stores EXCEPT ![c] = TransactionResult(@, data)]
         /\ runInserted' = runInserted \cup {c}
         /\ completed' = completed \cup {c}
  /\ AfterSeeding(idx)
  /\ UNCHANGED navVars
  /\ UNCHANGED << remote, urlReset, navigation, dbVersion, storeNames, indexNames, deletePending, db, upgradeFrom,
                  failure, display, stats, runFetched, runSkipped, deleted,
                  reopened, prev >>

\* the transaction aborts (an add request failed): nothing is stored, and
\* the promise awaiting oncomplete never settles
TransactionAbort ==
  /\ pc = "inserting"
  /\ LET c == COLLECTIONS[idx]
     IN  /\ HasConstraintError(stores[c], Snapshot(c, remote[c]))
         /\ ~EarlierReadPending(c)
  /\ pc' = "hung"
  /\ UNCHANGED navVars
  /\ UNCHANGED << remote, urlReset, navigation, persistentVars, db, upgradeFrom, idx, statReads, progress, status, failure,
                  display, stats, runCounted, runFetched, runInserted,
                  runSkipped, completed, deleted, reopened, prev >>

\* renderRegions (app.js 364-386)
RenderRows(records) == [kind |-> "rows", rows |-> records]

\* getAllFromStore('regions') resolves and renderRegions shows the records
ReadRegions ==
  /\ pc = "reading"
  /\ display' = [display EXCEPT !["regions"] = RenderRows(SortById(stores["regions"]))]
  /\ Advance(idx)
  /\ UNCHANGED navVars
  /\ UNCHANGED << remote, urlReset, navigation, persistentVars, db, upgradeFrom, failure, stats, runFetched,
                  runInserted, runSkipped, completed, deleted, reopened, prev >>

\* getAllFromStore('regions') rejects (request.onerror): the catch block of
\* initializeData reports the error and nothing is rendered
ReadRegionsError ==
  /\ pc = "reading"
  /\ Catch("read", "", 0)
  /\ UNCHANGED navVars
  /\ UNCHANGED << remote, urlReset, navigation, persistentVars, db, upgradeFrom, idx, statReads, progress, display, stats,
                  runCounted, runFetched, runInserted, runSkipped, completed,
                  deleted, reopened, prev >>

\* updateStatistics (app.js 293-316): one of its four awaited
\* getAllFromStore calls resolves; after the last one the statistics are
\* written, and initializeData goes on to hideLoadingOverlay (app.js 269)
UpdateStatistics ==
  /\ pc = "stats"
  /\ IF statReads + 1 < Len(COLLECTIONS)
     THEN /\ statReads' = statReads + 1
          /\ UNCHANGED << pc, stats >>
     ELSE /\ stats' = [c \in CollectionSet |-> Cardinality(stores[c])]
          /\ pc' = "done"
          /\ statReads' = 0
  /\ UNCHANGED idx
  /\ UNCHANGED navVars
  /\ UNCHANGED << remote, urlReset, navigation, persistentVars, db, upgradeFrom, progress, status, failure,
                  display, runCounted, runFetched, runInserted, runSkipped,
                  completed, deleted, reopened, prev >>

\* one of the getAllFromStore calls of updateStatistics rejects: its catch
\* block writes to the console only, the statistics are not written, and
\* initializeData goes on to hideLoadingOverlay
UpdateStatisticsError ==
  /\ pc = "stats"
  /\ pc' = "done"
  /\ statReads' = 0
  /\ UNCHANGED idx
  /\ UNCHANGED navVars
  /\ UNCHANGED << remote, urlReset, navigation, persistentVars, db, upgradeFrom, progress, status, failure,
                  display, stats, runCounted, runFetched, runInserted,
                  runSkipped, completed, deleted, reopened, prev >>


\* ------------------------------------------------------------------------
\* filterCities (app.js 620-644) and renderCities (app.js 497-525)
\* ------------------------------------------------------------------------

\* decimal digits of a number n >= 0, as String(n) writes them
RECURSIVE Digits(_)
Digits(n) == IF n < 10 THEN << n >> ELSE Digits(n \div 10) \o << n % 10 >>

\* the integer a digit string reads as
RECURSIVE ParseDigits(_)
ParseDigits(ds) ==
  IF ds = << >> THEN 0
  ELSE 10 * ParseDigits(SubSeq(ds, 1, Len(ds) - 1)) + ds[Len(ds)]

\* parseInt(n, 10) of an integer: its decimal string, parsed
parseInt(n) ==
  IF n < 0 THEN 0 - ParseDigits(Digits(0 - n)) ELSE ParseDigits(Digits(n))

\* variant: an empty array counts as not cached
CachedNonEmpty(code) ==
  citiesCache[code].present /\ citiesCache[code].cities # << >>

\* variant: the cache is never consulted
CachedNever(code) == citiesCache[code].present /\ FALSE

\* '!citiesCache[countryCode]' is false for every array, the empty one too
Cached(code) == citiesCache[code].present

\* variant: the city's own id is compared
RECURSIVE FilterByCityId(_, _)
FilterByCityId(cities, stateId) ==
  IF cities = << >> THEN << >>
  ELSE IF Head(cities).id = parseInt(stateId)
       THEN << Head(cities) >> \o FilterByCityId(Tail(cities), stateId)
       ELSE FilterByCityId(Tail(cities), stateId)

\* cities.filter(c => c.state_id === parseInt(stateId, 10))
RECURSIVE FilterByState(_, _)
FilterByState(cities, stateId) ==
  IF cities = << >> THEN << >>
  ELSE IF Head(cities).state_id = parseInt(stateId)
       THEN << Head(cities) >> \o FilterByState(Tail(cities), stateId)
       ELSE FilterByState(Tail(cities), stateId)

\* renderCities: 'No cities found' for an empty list, one row per city otherwise
RenderCities(cities) ==
  IF Len(cities) = 0 THEN [kind |-> "none", rows |-> << >>]
  ELSE [kind |-> "rows", rows |-> cities]

LoadingCities == [kind |-> "loading", rows |-> << >>]

ErrorCities == [kind |-> "error", rows |-> << >>]

\* variant: the failure is cached as an empty city list
CacheAfterFailureEmpty(code) == [citiesCache EXCEPT ![code] = [present |-> TRUE, cities |-> << >>]]

\* what the failed city fetch leaves in citiesCache: nothing is assigned
\* before the throw
CacheAfterFailure(code) == citiesCache

seedingVars == << db, upgradeFrom, pc, idx, statReads, progress, status, failure, stats, runCounted,
                  runFetched, runInserted, runSkipped, completed, deleted,
                  reopened, prev >>

\* filterCities runs in a loaded page and touches neither the database nor
\* the seeding run
NavigationFrame ==
  UNCHANGED << remote, urlReset, navigation, persistentVars, seedingVars >>

\* filterCities for a country code that is cached: no await is reached, the
\* call runs to its end
FilterCitiesCached(stateId, code) ==
  /\ Cached(code)
  /\ currentSelections' = [currentSelections EXCEPT !.state = stateId]
  /\ display' = [display EXCEPT !["cities"] =
                   RenderCities(FilterByState(citiesCache[code].cities, stateId))]
  /\ lastNav' = [op |-> "filterCities", stateId |-> stateId, code |-> code,
                 phase |-> "ok", fetch |-> FALSE, changed |-> FALSE]
  /\ UNCHANGED << citiesCache, calls, cityFailed, drillVars >>
  /\ NavigationFrame

\* filterCities for a country code that is not cached, up to 'await fetch'
FilterCitiesFetch(k, stateId, code) ==
  /\ ~Cached(code)
  /\ calls[k].pc = "idle"
  /\ \A j \in 1..(k - 1) : calls[j].pc # "idle"
  /\ display' = [display EXCEPT !["cities"] = LoadingCities]
  /\ currentSelections' = [currentSelections EXCEPT !.state = stateId]
  /\ calls' = [calls EXCEPT ![k] = [pc |-> "fetching", stateId |-> stateId, code |-> code]]
  /\ lastNav' = [op |-> "filterCities", stateId |-> stateId, code |-> code,
                 phase |-> "start", fetch |-> TRUE,
                 changed |-> currentSelections.state # stateId]
  /\ UNCHANGED << citiesCache, cityFailed, drillVars >>
  /\ NavigationFrame

\* variant: only the cities of the call's state are kept in citiesCache
CityFetchOkStoresFiltered(k) ==
  /\ calls[k].pc = "fetching"
  /\ LET code == calls[k].code
         stateId == calls[k].stateId
         cache == [citiesCache EXCEPT ![code] =
                     Entry(FilterByState(RemoteCities(code), stateId))]
     IN  /\ citiesCache' = cache
         /\ display' = [display EXCEPT !["cities"] = RenderCities(cache[code].cities)]
         /\ lastNav' = [op |-> "filterCities", stateId |-> stateId, code |-> code,
                        phase |-> "ok", fetch |-> TRUE, changed |-> FALSE]
  /\ calls' = Without(calls, k, IdleCall)
  /\ UNCHANGED << currentSelections, cityFailed, drillVars >>
  /\ NavigationFrame

\* variant: the result of a call is rendered only while its state id is the
\* selected one
CityFetchOkIfCurrent(k) ==
  /\ calls[k].pc = "fetching"
  /\ LET code == calls[k].code
         stateId == calls[k].stateId
         cache == [citiesCache EXCEPT ![code] = Entry(RemoteCities(code))]
     IN  /\ citiesCache' = cache
         /\ display' = IF currentSelections.state = stateId
                       THEN [display EXCEPT !["cities"] =
                               RenderCities(FilterByState(cache[code].cities, stateId))]
                       ELSE display
         /\ lastNav' = [op |-> "filterCities", stateId |-> stateId, code |-> code,
                        phase |-> "ok", fetch |-> TRUE, changed |-> FALSE]
  /\ calls' = Without(calls, k, IdleCall)
  /\ UNCHANGED << currentSelections, cityFailed, drillVars >>
  /\ NavigationFrame

\* variant: the fetched cities are also put into the states object store
CityFetchOkPersisted(k) ==
  /\ calls[k].pc = "fetching"
  /\ LET code == calls[k].code
         stateId == calls[k].stateId
         cache == [citiesCache EXCEPT ![code] = Entry(RemoteCities(code))]
     IN  /\ citiesCache' = cache
         /\ stores' = [stores EXCEPT !["states"] = @ \cup Range(RemoteCities(code))]
         /\ display' = [display EXCEPT !["cities"] =
                          RenderCities(FilterByState(cache[code].cities, stateId))]
         /\ lastNav' = [op |-> "filterCities", stateId |-> stateId, code |-> code,
                        phase |-> "ok", fetch |-> TRUE, changed |-> FALSE]
  /\ calls' = Without(calls, k, IdleCall)
  /\ UNCHANGED << currentSelections, cityFailed, drillVars, remote, urlReset, navigation, dbVersion,
                  storeNames, indexNames, deletePending, seedingVars >>

\* the city fetch of call k delivers the array: it is stored, filtered, rendered
CityFetchOk(k) ==
  /\ calls[k].pc = "fetching"
  /\ LET code == calls[k].code
         stateId == calls[k].stateId
         cache == [citiesCache EXCEPT ![code] = Entry(RemoteCities(code))]
     IN  /\ citiesCache' = cache
         /\ display' = [display EXCEPT !["cities"] =
                          RenderCities(FilterByState(cache[code].cities, stateId))]
         /\ lastNav' = [op |-> "filterCities", stateId |-> stateId, code |-> code,
                        phase |-> "ok", fetch |-> TRUE, changed |-> FALSE]
  /\ calls' = Without(calls, k, IdleCall)
  /\ UNCHANGED << currentSelections, cityFailed, drillVars >>
  /\ NavigationFrame

\* the city fetch of call k fails (response not ok, fetch rejected, body not
\* parseable): the catch block shows the error row
CityFetchFails(k, kind) ==
  /\ calls[k].pc = "fetching"
  /\ kind \in FetchOutcomes \ {"ok"}
  /\ citiesCache' = CacheAfterFailure(calls[k].code)
  /\ display' = [display EXCEPT !["cities"] = ErrorCities]
  /\ lastNav' = [op |-> "filterCities", stateId |-> calls[k].stateId,
                 code |-> calls[k].code, phase |-> "error", fetch |-> TRUE, changed |-> FALSE]
  /\ cityFailed' = cityFailed \cup {calls[k].code}
  /\ calls' = Without(calls, k, IdleCall)
  /\ UNCHANGED << currentSelections, drillVars >>
  /\ NavigationFrame

\* ------------------------------------------------------------------------
\* The drill-down filters (app.js 559-613) over getFromIndex (app.js 169-182)
\* ------------------------------------------------------------------------

DrillOps == {"filterSubregions", "filterCountries", "filterStates"}

\* the object store a filter reads, which is also the column it fills
QueryStore(op) ==
  CASE op = "filterSubregions" -> "subregions"
    [] op = "filterCountries"  -> "countries"
    [] op = "filterStates"     -> "states"

\* the index a filter reads
QueryIndex(op) ==
  CASE op = "filterSubregions" -> "region_id"
    [] op = "filterCountries"  -> "subregion_id"
    [] op = "filterStates"     -> "country_id"

\* variant: the cities column is left as it is
DeeperColumnsButCities(op) ==
  CASE op = "filterSubregions" -> {"countries", "states"}
    [] op = "filterCountries"  -> {"states"}
    [] op = "filterStates"     -> {}

\* the columns a filter clears after rendering its own
DeeperColumns(op) ==
  CASE op = "filterSubregions" -> {"countries", "states", "cities"}
    [] op = "filterCountries"  -> {"states", "cities"}
    [] op = "filterStates"     -> {"cities"}

\* variant: the whole store is returned
GetFromIndexAll(c, indexName, value) == SortById(stores[c])

\* index.getAll(value): the records whose index key equals the value, in
\* key order
GetFromIndex(c, indexName, value) ==
  SortById({r \in stores[c] : indexName \in DOMAIN r /\ r[indexName] = value})

\* the request of getFromIndex can be placed: the handle is set and the
\* store and its index exist (otherwise the promise rejects)
CanQueryIndex(c, indexName) ==
  /\ ConnectionOpen
  /\ c \in storeNames
  /\ indexName \in indexNames[c]

\* renderSubregions, renderCountries, renderStates: a 'No ... found' row for
\* an empty list, one row per record otherwise
RenderList(records) ==
  IF Len(records) = 0 THEN [kind |-> "none", rows |-> << >>]
  ELSE [kind |-> "rows", rows |-> records]

\* clearColumn: the 'Select an item' row
ClearColumn == [kind |-> "cleared", rows |-> << >>]

\* the slot a new call takes: the lowest idle one
FreeQuerySlot(k) ==
  /\ queries[k].op = "idle"
  /\ \A j \in 1..(k - 1) : queries[j].op # "idle"

\* lastNav after a step other than one of filterCities or the start of a filter
OtherNav == [op |-> "other", stateId |-> Null, code |-> "", phase |-> "none", fetch |-> FALSE, changed |-> FALSE]

\* a filter up to 'await getFromIndex': the selection is recorded, the
\* request is placed
StartFilter(k, op, selections, id, code) ==
  /\ FreeQuerySlot(k)
  /\ currentSelections' = selections
  /\ queries' = [queries EXCEPT ![k] =
                   [op |-> op, store |-> QueryStore(op), id |-> id, code |-> code,
                    waits |-> WriteLocked(QueryStore(op))]]
  /\ lastNav' = [op |-> op, stateId |-> Null, code |-> "", phase |-> "start",
                 fetch |-> FALSE, changed |-> selections # currentSelections]
  /\ UNCHANGED << display, citiesCache, calls, cityFailed, modal >>
  /\ NavigationFrame

\* filterSubregions(regionId) with a number (a string asks for the reset:
\* the page is loaded again with reset=true, see StartSession)
FilterSubregions(k, regionId) ==
  StartFilter(k, "filterSubregions",
              [currentSelections EXCEPT !.region = regionId], regionId, "")

\* variant: the dependent columns are cleared before the reload is requested
FilterSubregionsResetClearing ==
  /\ navigation' = "reset"
  /\ display' = [col \in Columns |->
                   IF col \in DeeperColumns("filterSubregions")
                   THEN ClearColumn ELSE display[col]]
  /\ UNCHANGED << remote, urlReset, persistentVars, db, upgradeFrom, pc, idx, statReads, progress, status, failure,
                  stats, runCounted, runFetched, runInserted, runSkipped,
                  completed, deleted, reopened, prev >>
  /\ UNCHANGED navVars

\* filterSubregions with a string: window.location.search = 'reset=true' and
\* return (app.js 560-563).  Only the query string of the next page load is
\* assigned: the page, its seeding run and its navigation calls go on until
\* the page is left.
FilterSubregionsReset ==
  /\ navigation' = "reset"
  /\ UNCHANGED << remote, urlReset, persistentVars, db, upgradeFrom, pc, idx, statReads, progress, status, failure,
                  display, stats, runCounted, runFetched, runInserted,
                  runSkipped, completed, deleted, reopened, prev >>
  /\ UNCHANGED navVars

FilterCountries(k, subregionId) ==
  StartFilter(k, "filterCountries",
              [currentSelections EXCEPT !.subregion = subregionId], subregionId, "")

FilterStates(k, countryId, countryCode) ==
  StartFilter(k, "filterStates",
              [currentSelections EXCEPT !.country = [id |-> countryId, code |-> countryCode]],
              countryId, countryCode)

\* what the columns show once a filter has rendered its result and cleared
\* the dependent columns
DisplayAfterFilter(op, result) ==
  [col \in Columns |->
     IF col = QueryStore(op) THEN RenderList(result)
     ELSE IF col \in DeeperColumns(op) THEN ClearColumn
     ELSE display[col]]

\* request.onsuccess of the filter in slot k: the result is rendered and the
\* dependent columns are cleared
IndexQueryOk(k) ==
  /\ queries[k].op \in DrillOps
  /\ queries' = Without(queries, k, IdleQuery)
  /\ lastNav' = OtherNav
  /\ LET q == queries[k]
     IN  /\ CanQueryIndex(q.store, QueryIndex(q.op))
         /\ q.waits => ~WriteLocked(q.store)
         /\ display' = DisplayAfterFilter(q.op, GetFromIndex(q.store, QueryIndex(q.op), q.id))
  /\ UNCHANGED << citiesCache, currentSelections, calls, cityFailed, modal >>
  /\ NavigationFrame

\* the promise of getFromIndex rejects (no handle, no such index, or
\* request.onerror): the catch block writes to the console only
IndexQueryFails(k) ==
  /\ queries[k].op \in DrillOps
  /\ lastNav' = OtherNav
  /\ queries' = Without(queries, k, IdleQuery)
  /\ UNCHANGED << display, citiesCache, currentSelections, calls, cityFailed, modal >>
  /\ NavigationFrame

\* ------------------------------------------------------------------------
\* toggleModal (app.js 678-721) over getById (app.js 190-202)
\* ------------------------------------------------------------------------

\* store.get(parseInt(id, 10)): the record with that key, undefined when
\* there is none
GetById(c, id) ==
  IF \E r \in stores[c] : r.id = parseInt(id)
  THEN CHOOSE r \in stores[c] : r.id = parseInt(id)
  ELSE NoItem

\* variant: the position of the last match
FindLastIndex(cities, id) ==
  IF \E i \in 1..Len(cities) : cities[i].id = parseInt(id)
  THEN CHOOSE i \in 1..Len(cities) :
         /\ cities[i].id = parseInt(id)
         /\ \A j \in (i + 1)..Len(cities) : cities[j].id # parseInt(id)
  ELSE 0

\* cities.find(c => c.id === parseInt(id, 10)): the position of the first
\* match, 0 when there is none
FindIndex(cities, id) ==
  IF \E i \in 1..Len(cities) : cities[i].id = parseInt(id)
  THEN CHOOSE i \in 1..Len(cities) :
         /\ cities[i].id = parseInt(id)
         /\ \A j \in 1..(i - 1) : cities[j].id # parseInt(id)
  ELSE 0

\* the cities the scan 'for (const countryCode in citiesCache)' can stop at:
\* the first match of a cached array (which array comes first depends on the
\* order in which the entries were created)
FoundCities(id) ==
  {citiesCache[code].cities[FindIndex(citiesCache[code].cities, id)] :
     code \in {cd \in Codes : /\ citiesCache[cd].present
                              /\ FindIndex(citiesCache[cd].cities, id) # 0}}

\* toggleModal when it reaches no await: closing, opening without an id and
\* a type, opening on a city (looked up in citiesCache)
ToggleModal(id, type) ==
  /\ LET isOpening == ~modal.open
         lookup == isOpening /\ id # Null /\ type # ""
     IN  /\ lookup => type = "cities"
         /\ \E item \in (IF lookup /\ FoundCities(id) # {}
                         THEN FoundCities(id) ELSE {modal.item}) :
              modal' = [open |-> isOpening, item |-> item]
  /\ lastNav' = OtherNav
  /\ UNCHANGED << display, citiesCache, currentSelections, calls, cityFailed, queries >>
  /\ NavigationFrame

\* toggleModal opening on a record of an object store, up to 'await getById'
ToggleModalQuery(k, id, type) ==
  /\ ~modal.open
  /\ id # Null
  /\ type \in CollectionSet
  /\ FreeQuerySlot(k)
  /\ modal' = [modal EXCEPT !.open = TRUE]
  /\ queries' = [queries EXCEPT ![k] =
                   [op |-> "toggleModal", store |-> type, id |-> id, code |-> "",
                    waits |-> WriteLocked(type)]]
  /\ lastNav' = OtherNav
  /\ UNCHANGED << display, citiesCache, currentSelections, calls, cityFailed >>
  /\ NavigationFrame

\* getById resolves: a record that was found is shown
GetByIdOk(k) ==
  /\ queries[k].op = "toggleModal"
  /\ ConnectionOpen
  /\ queries[k].store \in storeNames
  /\ queries[k].waits => ~WriteLocked(queries[k].store)
  /\ LET item == GetById(queries[k].store, queries[k].id)
     IN  modal' = IF item # NoItem THEN [modal EXCEPT !.item = item] ELSE modal
  /\ lastNav' = OtherNav
  /\ queries' = Without(queries, k, IdleQuery)
  /\ UNCHANGED << display, citiesCache, currentSelections, calls, cityFailed >>
  /\ NavigationFrame

\* getById rejects: toggleModal has no catch, the modal stays as it is
GetByIdFails(k) ==
  /\ queries[k].op = "toggleModal"
  /\ lastNav' = OtherNav
  /\ queries' = Without(queries, k, IdleQuery)
  /\ UNCHANGED << display, citiesCache, currentSelections, calls, cityFailed, modal >>
  /\ NavigationFrame

\* ------------------------------------------------------------------------
\* Specification of the seeding engine: page loads, resets, seeding runs
\* ------------------------------------------------------------------------

Init ==
  /\ remote \in [CollectionSet -> Variants]
  /\ navigation = "none"
  /\ urlReset = FALSE
  /\ dbVersion = 0
  /\ storeNames = {}
  /\ indexNames = [c \in CollectionSet |-> {}]
  /\ stores = [c \in CollectionSet |-> {}]
  /\ deletePending = FALSE
  /\ db = FALSE
  /\ upgradeFrom = NoUpgrade
  /\ pc = "evaluated"
  /\ idx = 0
  /\ statReads = 0
  /\ progress = 0
  /\ status = NoStatus
  /\ failure = NoFailure
  /\ display = InitialDisplay
  /\ stats = InitialStats
  /\ runCounted = {}
  /\ runFetched = {}
  /\ runInserted = {}
  /\ runSkipped = {}
  /\ completed = {}
  /\ deleted = FALSE
  /\ reopened = FALSE
  /\ prev = [pc |-> "none", fetched |-> {}, inserted |-> {}]
  /\ citiesCache = [code \in Codes |-> NoEntry]
  /\ currentSelections = [region |-> Null, subregion |-> Null, country |-> NoCountry, state |-> Null]
  /\ calls = [k \in 1..MaxCalls |-> IdleCall]
  /\ lastNav = NoNav
  /\ cityFailed = {}
  /\ queries = [k \in 1..MaxQueries |-> IdleQuery]
  /\ modal = ClosedModal

Next ==
  \/ WindowLoad
  \/ \E reset \in BOOLEAN : StartSession(reset)
  \/ DeleteSuccess
  \/ DeleteError
  \/ CallDeleteDatabase
  \/ PendingDeleteSuccess
  \/ PendingDeleteError
  \/ UpgradeNeeded
  \/ OpenSuccess
  \/ OpenError
  \/ CountSuccess
  \/ CountError
  \/ \E f \in FetchFailures : FetchFails(f.kind, f.code)
  \/ FetchOk
  \/ CommitIssuedAdds
  \/ TransactionComplete
  \/ TransactionAbort
  \/ ReadRegions
  \/ ReadRegionsError
  \/ UpdateStatistics
  \/ UpdateStatisticsError

Spec == Init /\ [][Next]_vars

\* ------------------------------------------------------------------------
\* Specification of one seeding run: the page is loaded once on a fresh
\* profile and is not loaded again; every request the run awaits is
\* eventually answered by one of its outcomes
\* ------------------------------------------------------------------------

NextRun ==
  \/ WindowLoad
  \/ UpgradeNeeded
  \/ OpenSuccess
  \/ OpenError
  \/ CountSuccess
  \/ CountError
  \/ \E f \in FetchFailures : FetchFails(f.kind, f.code)
  \/ FetchOk
  \/ CommitIssuedAdds
  \/ TransactionComplete
  \/ TransactionAbort
  \/ ReadRegions
  \/ ReadRegionsError
  \/ UpdateStatistics
  \/ UpdateStatisticsError

SpecRun == Init /\ [][NextRun]_vars /\ WF_vars(NextRun)

\* ------------------------------------------------------------------------
\* Specification of navigation: sessions over a store seeded by an earlier
\* run, with filterCities calls in any interleaving
\* ------------------------------------------------------------------------

InitNav ==
  /\ remote = [c \in CollectionSet |-> "good"]
  /\ navigation = "none"
  /\ urlReset = FALSE
  /\ dbVersion = DB_VERSION
  /\ storeNames = CollectionSet
  /\ indexNames = [c \in CollectionSet |-> SchemaIndexes(c)]
  /\ stores = [c \in CollectionSet |-> Range(GoodSnapshot(c))]
  /\ deletePending = FALSE
  /\ db = FALSE
  /\ upgradeFrom = NoUpgrade
  /\ pc = "evaluated"
  /\ idx = 0
  /\ statReads = 0
  /\ progress = 0
  /\ status = NoStatus
  /\ failure = NoFailure
  /\ display = InitialDisplay
  /\ stats = InitialStats
  /\ runCounted = {}
  /\ runFetched = {}
  /\ runInserted = {}
  /\ runSkipped = {}
  /\ completed = CollectionSet
  /\ deleted = FALSE
  /\ reopened = FALSE
  /\ prev = [pc |-> "done", fetched |-> CollectionSet, inserted |-> CollectionSet]
  /\ citiesCache = [code \in Codes |-> NoEntry]
  /\ currentSelections = [region |-> Null, subregion |-> Null, country |-> NoCountry, state |-> Null]
  /\ calls = [k \in 1..MaxCalls |-> IdleCall]
  /\ lastNav = NoNav
  /\ cityFailed = {}
  /\ queries = [k \in 1..MaxQueries |-> IdleQuery]
  /\ modal = ClosedModal

NextNav ==
  \/ WindowLoad
  \/ StartSession(FALSE)
  \/ OpenSuccess
  \/ OpenError
  \/ CountSuccess
  \/ CountError
  \/ ReadRegions
  \/ ReadRegionsError
  \/ UpdateStatistics
  \/ UpdateStatisticsError
  \/ \E stateId \in StateIds, code \in Codes : FilterCitiesCached(stateId, code)
  \/ \E k \in 1..MaxCalls, stateId \in StateIds, code \in Codes :
       FilterCitiesFetch(k, stateId, code)
  \/ \E k \in 1..MaxCalls : CityFetchOk(k)
  \/ \E k \in 1..MaxCalls, kind \in FetchOutcomes \ {"ok"} : CityFetchFails(k, kind)

SpecNav == InitNav /\ [][NextNav]_vars

\* ------------------------------------------------------------------------
\* Specification of the drill-down: sessions over a seeded store in which,
\* once the loading overlay is gone, the five navigation entry points are
\* called in any order and their requests settle in any order
\* ------------------------------------------------------------------------

\* region ids the user drills into: region 1 has two subregions, region 2 none
RegionIds == {1, 2}

\* subregion 10 holds country 100, and not country 101
SubregionIds == {10}

\* the arguments the rendered country rows call filterStates with
CountryArgs == {[id |-> 100, code |-> "IN"]}

\* the arguments the rendered state rows call filterCities with
CityArgs == {[stateId |-> 100, code |-> "IN"]}

\* the arguments of toggleModal: none (close buttons, Escape), a region, a city
ModalArgs == {[id |-> Null, type |-> ""], [id |-> 1, type |-> "regions"],
              [id |-> 3, type |-> "cities"]}

\* hideLoadingOverlay has run: the page can be clicked
Loaded == pc = "done"

\* here the user asks for cities when no city fetch is pending (concurrent
\* filterCities calls are the subject of SpecNav)
NoCityCallPending == \A j \in 1..MaxCalls : calls[j].pc = "idle"

NextDrill ==
  \/ WindowLoad
  \/ StartSession(FALSE)
  \/ OpenSuccess
  \/ OpenError
  \/ CountSuccess
  \/ CountError
  \/ ReadRegions
  \/ ReadRegionsError
  \/ UpdateStatistics
  \/ UpdateStatisticsError
  \/ \E k \in 1..MaxQueries, regionId \in RegionIds :
       Loaded /\ FilterSubregions(k, regionId)
  \/ \E k \in 1..MaxQueries, subregionId \in SubregionIds :
       Loaded /\ FilterCountries(k, subregionId)
  \/ \E k \in 1..MaxQueries, a \in CountryArgs :
       Loaded /\ FilterStates(k, a.id, a.code)
  \/ \E k \in 1..MaxQueries : IndexQueryOk(k)
  \/ \E k \in 1..MaxQueries : IndexQueryFails(k)
  \/ \E a \in CityArgs : Loaded /\ FilterCitiesCached(a.stateId, a.code)
  \/ \E k \in 1..MaxCalls, a \in CityArgs :
       Loaded /\ NoCityCallPending /\ FilterCitiesFetch(k, a.stateId, a.code)
  \/ \E k \in 1..MaxCalls : CityFetchOk(k)
  \/ \E k \in 1..MaxCalls, kind \in FetchOutcomes \ {"ok"} : CityFetchFails(k, kind)
  \/ \E a \in ModalArgs : Loaded /\ ToggleModal(a.id, a.type)
  \/ \E k \in 1..MaxQueries, a \in ModalArgs :
       Loaded /\ ToggleModalQuery(k, a.id, a.type)
  \/ \E k \in 1..MaxQueries : GetByIdOk(k)
  \/ \E k \in 1..MaxQueries : GetByIdFails(k)

SpecDrill == InitNav /\ [][NextDrill]_vars

\* ------------------------------------------------------------------------
\* Specification of navigation during seeding: page loads from a fresh
\* profile on; the region rows can be clicked as soon as they are rendered,
\* while the loop is still working on the other collections.  The snapshots
\* are complete or carry a record without id.
\* ------------------------------------------------------------------------

InitSeedNav ==
  /\ Init
  /\ remote["regions"] = "good"
  /\ \A c \in CollectionSet : remote[c] \in {"good", "noid"}

\* renderRegions has run: the rows that call filterSubregions are on the page
RegionsRendered == display["regions"].kind = "rows"

\* initializeData is between openDB and the end of its try block
SeedingInProgress == pc \in {"counting", "fetching", "inserting", "reading", "stats"}

NextSeedNav ==
  \/ WindowLoad
  \/ StartSession(FALSE)
  \/ UpgradeNeeded
  \/ OpenSuccess
  \/ OpenError
  \/ CountSuccess
  \/ CountError
  \/ \E f \in FetchFailures : FetchFails(f.kind, f.code)
  \/ FetchOk
  \/ CommitIssuedAdds
  \/ TransactionComplete
  \/ ReadRegions
  \/ ReadRegionsError
  \/ UpdateStatistics
  \/ UpdateStatisticsError
  \/ \E k \in 1..MaxQueries, regionId \in RegionIds :
       SeedingInProgress /\ RegionsRendered /\ FilterSubregions(k, regionId)
  \/ \E k \in 1..MaxQueries, subregionId \in SubregionIds :
       SeedingInProgress /\ RegionsRendered /\ FilterCountries(k, subregionId)
  \/ \E k \in 1..MaxQueries, a \in CountryArgs :
       SeedingInProgress /\ RegionsRendered /\ FilterStates(k, a.id, a.code)
  \/ \E k \in 1..MaxQueries : IndexQueryOk(k)
  \/ \E k \in 1..MaxQueries : IndexQueryFails(k)

SpecSeedNav == InitSeedNav /\ [][NextSeedNav]_vars

\* ------------------------------------------------------------------------
\* Specification of the reset: sessions over a seeded store in which
\* filterSubregions is called with region ids and with the string 'reset',
\* and the page is loaded with or without reset=true
\* ------------------------------------------------------------------------

NextReset ==
  \/ WindowLoad
  \/ \E reset \in BOOLEAN : StartSession(reset)
  \/ DeleteSuccess
  \/ DeleteError
  \/ CallDeleteDatabase
  \/ PendingDeleteSuccess
  \/ PendingDeleteError
  \/ UpgradeNeeded
  \/ OpenSuccess
  \/ OpenError
  \/ CountSuccess
  \/ CountError
  \/ \E f \in FetchFailures : FetchFails(f.kind, f.code)
  \/ FetchOk
  \/ TransactionComplete
  \/ ReadRegions
  \/ ReadRegionsError
  \/ UpdateStatistics
  \/ UpdateStatisticsError
  \/ FilterSubregionsReset
  \/ \E k \in 1..MaxQueries, regionId \in RegionIds :
       Loaded /\ FilterSubregions(k, regionId)
  \/ \E k \in 1..MaxQueries : IndexQueryOk(k)
  \/ \E k \in 1..MaxQueries : IndexQueryFails(k)

SpecReset == InitNav /\ [][NextReset]_vars

\* ------------------------------------------------------------------------
\* Specification of the upgrade: page loads over a database that an earlier
\* release left at the version before DB_VERSION, with any of the object
\* stores, any of their indexes, and seeded or empty stores
\* ------------------------------------------------------------------------

InitUpgrade ==
  /\ remote = [c \in CollectionSet |-> "good"]
  /\ navigation = "none"
  /\ urlReset = FALSE
  /\ dbVersion = DB_VERSION - 1
  /\ storeNames \in SUBSET CollectionSet
  /\ \E onSubregions \in SUBSET SchemaIndexes("subregions"),
        onCountries \in SUBSET SchemaIndexes("countries"),
        onStates \in SUBSET SchemaIndexes("states") :
       indexNames = [c \in CollectionSet |->
                       IF c \notin storeNames THEN {}
                       ELSE CASE c = "regions"    -> {}
                              [] c = "subregions" -> onSubregions
                              [] c = "countries"  -> onCountries
                              [] c = "states"     -> onStates]
  /\ \E seeded \in SUBSET storeNames :
       stores = [c \in CollectionSet |->
                   IF c \in seeded THEN Range(GoodSnapshot(c)) ELSE {}]
  /\ deletePending = FALSE
  /\ db = FALSE
  /\ upgradeFrom = NoUpgrade
  /\ pc = "evaluated"
  /\ idx = 0
  /\ statReads = 0
  /\ progress = 0
  /\ status = NoStatus
  /\ failure = NoFailure
  /\ display = InitialDisplay
  /\ stats = InitialStats
  /\ runCounted = {}
  /\ runFetched = {}
  /\ runInserted = {}
  /\ runSkipped = {}
  /\ completed = {c \in CollectionSet : stores[c] # {}}
  /\ deleted = FALSE
  /\ reopened = FALSE
  /\ prev = [pc |-> "none", fetched |-> {}, inserted |-> {}]
  /\ citiesCache = [code \in Codes |-> NoEntry]
  /\ currentSelections = [region |-> Null, subregion |-> Null, country |-> NoCountry, state |-> Null]
  /\ calls = [k \in 1..MaxCalls |-> IdleCall]
  /\ lastNav = NoNav
  /\ cityFailed = {}
  /\ queries = [k \in 1..MaxQueries |-> IdleQuery]
  /\ modal = ClosedModal

NextUpgrade ==
  \/ WindowLoad
  \/ StartSession(FALSE)
  \/ UpgradeNeeded
  \/ OpenSuccess
  \/ OpenError
  \/ CountSuccess
  \/ CountError
  \/ \E f \in FetchFailures : FetchFails(f.kind, f.code)
  \/ FetchOk
  \/ TransactionComplete
  \/ ReadRegions
  \/ ReadRegionsError
  \/ UpdateStatistics
  \/ UpdateStatisticsError

SpecUpgrade == InitUpgrade /\ [][NextUpgrade]_vars

\* ========================================================================
\* Properties of the seeding engine (checked under Spec)
\* ========================================================================

\* the records of the snapshot the source serves for c
SnapshotRecords(c) == Range(Snapshot(c, remote[c]))

\* the second of two runs does nothing for c beyond the count check
SecondRunOnlyCounts(c) ==
  /\ c \notin runFetched
  /\ c \notin runInserted
  /\ pc = "done" => c \in runCounted /\ c \in runSkipped

\* C1 as stated: when the previous run succeeded and the database was not
\* deleted since, this run fetches and inserts no collection (so each
\* collection the first run seeded is fetched once and inserted once in total)
\* and only counts each collection.
C1_SeedOnceAnySnapshot ==
  (prev.pc = "done" /\ ~reopened) =>
    \A c \in CollectionSet :
      /\ SecondRunOnlyCounts(c)
      /\ c \in prev.fetched => c \in prev.inserted

\* C1 amended: seed-once holds for every collection whose snapshot holds at
\* least one record: after a successful run, the following run (the database
\* not deleted in between) fetches and inserts no such collection and only
\* counts it, so a collection seeded by the first run is fetched once and
\* inserted once in total.
C1_SeedOnce ==
  (prev.pc = "done" /\ ~reopened) =>
    \A c \in CollectionSet :
      Snapshot(c, remote[c]) # << >> =>
        /\ SecondRunOnlyCounts(c)
        /\ c \in prev.fetched => c \in prev.inserted

\* the first run fetched and inserted all four collections, the second run
\* has skipped all four and is complete
C1_Witness ==
  /\ prev.pc = "done"
  /\ ~reopened
  /\ prev.fetched = CollectionSet
  /\ prev.inserted = CollectionSet
  /\ pc = "done"
  /\ runSkipped = CollectionSet
  /\ runFetched = {}

\* a step in which a deleteDatabase request takes effect: the one of the reset
\* branch or one placed by a call from outside it, answered in the page that
\* placed it or carried out when that page is left
DeleteDatabaseExecuted ==
  \/ DeleteSuccess
  \/ PendingDeleteSuccess
  \/ (deletePending \/ pc = "deleting") /\ \E reset \in BOOLEAN : StartSession(reset)

\* C2: a collection that holds a record is changed by no step except the
\* deletion of the database, and a seeding run starts the fetch of a collection
\* only when that collection is empty.
C2_NonEmptyNeverReseeded ==
  [][\A c \in CollectionSet :
       /\ (stores[c] # {} /\ ~DeleteDatabaseExecuted) => stores'[c] = stores[c]
       /\ (c \notin runFetched /\ c \in runFetched') => stores[c] = {}]_vars

\* a run after a failed run has skipped a collection that holds records
C2_Witness ==
  /\ prev.pc = "error"
  /\ \E c \in CollectionSet : c \in runSkipped /\ stores[c] # {}
  /\ pc = "done"

\* C3 as stated: every collection is empty or holds its complete snapshot.
C3_CollectionEmptyOrComplete ==
  \A c \in CollectionSet : stores[c] = {} \/ stores[c] = SnapshotRecords(c)

\* C4 as stated: when the step of collection c fails because the response is
\* not successful or the body does not parse, nothing was counted, fetched or
\* inserted for a collection after c, the error shown names c, and every
\* collection inserted before holds its snapshot.
C4_FailureAbortsAndNamesCollection ==
  (pc = "error" /\ failure.kind \in {"http_error", "parse_error"}) =>
    /\ failure.collection = COLLECTIONS[idx]
    /\ \A j \in (idx + 1)..Len(COLLECTIONS) :
         /\ COLLECTIONS[j] \notin runCounted
         /\ COLLECTIONS[j] \notin runFetched
         /\ COLLECTIONS[j] \notin runInserted
    /\ status.kind = "Error"
    /\ status.collection = COLLECTIONS[idx]
    /\ \A c \in runInserted : stores[c] = SnapshotRecords(c)

\* C5 as stated: when the countries fetch is answered with 500, the count of
\* subregions and of every later collection was not queried in that run.
C5_SubregionsNeverCounted ==
  (failure.kind = "http_error" /\ failure.collection = "countries" /\ failure.code = 500) =>
    /\ pc = "error"
    /\ "subregions" \notin runCounted
    /\ "states" \notin runCounted

\* C5 amended: when the countries fetch is answered with 500, seeding aborts
\* and the count of states, the only collection after countries, is not
\* queried in that run; the counts of regions, subregions and countries were
\* queried before the failure.
C5_ScenarioD ==
  (failure.kind = "http_error" /\ failure.collection = "countries" /\ failure.code = 500) =>
    /\ pc = "error"
    /\ runCounted = {"regions", "subregions", "countries"}
    /\ "states" \notin runFetched
    /\ "states" \notin runInserted
    /\ "states" \notin runSkipped

\* the countries fetch of this run was answered with 500
C5_Witness ==
  /\ pc = "error"
  /\ failure = [kind |-> "http_error", collection |-> "countries", code |-> 500]
  /\ status.collection = "countries"

\* C6 as stated: in the run after a failed run, a collection is fetched only
\* if its seeding never completed, and is skipped only if it completed.
C6_RetryExactlyIncomplete ==
  prev.pc = "error" =>
    \A c \in CollectionSet :
      /\ c \in runSkipped => c \in completed
      /\ c \in (runFetched \ runInserted) => c \notin completed

\* C7: in the session that opens the database first after deleteDatabase, all
\* four object stores exist, a collection is empty until its fetch is started,
\* no step skips its fetch, and a run that completes has fetched and inserted
\* all four snapshots and left every collection equal to its snapshot.
C7_ResetCompleteness ==
  reopened =>
    /\ dbVersion = DB_VERSION
    /\ storeNames = CollectionSet
    /\ \A c \in CollectionSet : c \notin runFetched => stores[c] = {}
    /\ runSkipped = {}
    /\ pc = "done" =>
         /\ runFetched = CollectionSet
         /\ runInserted = CollectionSet
         /\ \A c \in CollectionSet : stores[c] = SnapshotRecords(c)

\* a run after a reset has completed and every collection holds records again
C7_Witness ==
  /\ reopened
  /\ pc = "done"
  /\ runInserted = CollectionSet
  /\ \A c \in CollectionSet : stores[c] # {}

\* ========================================================================
\* Properties of the city overlay (checked under SpecNav)
\* ========================================================================

\* citiesCache holds a city list for the code
HasEntry(code) == citiesCache[code].present

\* this step is the start of a city fetch for the code
StartsCityFetch(code) ==
  \E k \in 1..MaxCalls :
    /\ calls[k].pc = "idle"
    /\ calls'[k].pc = "fetching"
    /\ calls'[k].code = code

\* this step is the failure of the city fetch of call k
CityFetchOfCallFails(k) ==
  /\ calls[k].pc = "fetching"
  /\ calls' = Without(calls, k, IdleCall)
  /\ lastNav'.phase = "error"

\* this step is a filterCities call that ended without a fetch
ServedWithoutFetch ==
  /\ calls' = calls
  /\ lastNav'.op = "filterCities"
  /\ lastNav'.phase = "ok"
  /\ ~lastNav'.fetch

\* C8: within a session, once citiesCache holds a city list for a country
\* code, no step starts a city fetch for that code and no step removes the
\* entry or changes its value.
C8_OverlayFetchOnce ==
  [][(~ \E reset \in BOOLEAN : StartSession(reset)) =>
       \A code \in Codes :
         HasEntry(code) =>
           /\ ~StartsCityFetch(code)
           /\ citiesCache'[code] = citiesCache[code]]_vars

\* a call for a country whose (empty) city list is cached was served from the
\* cache
C8_Witness ==
  /\ HasEntry("AQ")
  /\ HasEntry("IN")
  /\ lastNav = [op |-> "filterCities", stateId |-> 100, code |-> "AQ",
                phase |-> "ok", fetch |-> FALSE, changed |-> FALSE]

\* C9: a failed city fetch leaves citiesCache as it was (no entry is created
\* for the code) and puts the error row in the cities column; a filterCities
\* call ends without a fetch only when citiesCache holds an entry for its
\* code, so a call for a code whose fetch failed fetches again.
C9_CityFetchFailureNotCached ==
  [][/\ \A k \in 1..MaxCalls :
          CityFetchOfCallFails(k) =>
            /\ citiesCache' = citiesCache
            /\ display'["cities"].kind = "error"
     /\ ServedWithoutFetch => HasEntry(lastNav'.code)]_vars

\* after the city fetch for IN failed, a new call for IN has started a fetch
C9_Witness ==
  /\ "IN" \in cityFailed
  /\ ~HasEntry("IN")
  /\ lastNav.phase = "start"
  /\ lastNav.code = "IN"
  /\ display["cities"].kind = "loading"
  /\ \E k \in 1..MaxCalls : calls[k].pc = "fetching" /\ calls[k].code = "IN"

\* C10: after a filterCities call that completed successfully, the cities
\* column shows exactly the records of the cached array of its country code
\* whose state_id is its state id, each once, and 'No cities found' when there
\* is none.
C10_CityFilterExact ==
  (lastNav.op = "filterCities" /\ lastNav.phase = "ok") =>
    LET shown == display["cities"].rows
        cached == citiesCache[lastNav.code].cities
    IN  /\ HasEntry(lastNav.code)
        /\ \A i \in 1..Len(cached) :
             (cached[i].state_id = lastNav.stateId) <=> (cached[i] \in Range(shown))
        /\ Range(shown) \subseteq Range(cached)
        /\ Cardinality(Range(shown)) = Len(shown)
        /\ display["cities"].kind = IF shown = << >> THEN "none" ELSE "rows"

\* the call for state 100 of IN completed and shows the two cities of state
\* 100 and not the city of state 200
C10_Witness ==
  /\ lastNav.op = "filterCities"
  /\ lastNav.phase = "ok"
  /\ lastNav.code = "IN"
  /\ lastNav.stateId = 100
  /\ display["cities"].rows = << [id |-> 1, state_id |-> 100], [id |-> 3, state_id |-> 100] >>

\* ========================================================================
\* Properties of the drill-down (checked under SpecDrill)
\* ========================================================================

\* the parent id a record of the column filled by the filter carries
ParentId(op, r) ==
  CASE op = "filterSubregions" -> r.region_id
    [] op = "filterCountries"  -> r.subregion_id
    [] op = "filterStates"     -> r.country_id

\* this step starts a city fetch
StartsAnyCityFetch == \E code \in Codes : StartsCityFetch(code)

\* this step is taken by filterSubregions, filterCountries, filterStates or
\* toggleModal: each of their steps changes queries or the modal
FilterOrModalStep == queries' # queries \/ modal' # modal

\* C11: over the seeded store, when filterSubregions(p), filterCountries(p) or
\* filterStates(p) resolves, the column it fills shows exactly the stored
\* records of its collection whose parent id is p, each once, and the 'none
\* found' row when there is no such record.
C11_ReferentialFilter ==
  [][\A k \in 1..MaxQueries :
       IndexQueryOk(k) =>
         LET q == queries[k]
             shown == display'[q.store].rows
             matching == {r \in stores[q.store] : ParentId(q.op, r) = q.id}
         IN  /\ Range(shown) = matching
             /\ Cardinality(matching) = Len(shown)
             /\ display'[q.store].kind = IF matching = {} THEN "none" ELSE "rows"]_vars

\* the three columns show the subregions of region 1, the country of
\* subregion 10 and the states of country 100
C11_Witness ==
  /\ display["subregions"].rows = << [id |-> 10, region_id |-> 1], [id |-> 11, region_id |-> 1] >>
  /\ display["countries"].rows = << [id |-> 100, subregion_id |-> 10, iso2 |-> "IN"] >>
  /\ Len(display["states"].rows) = 2
  /\ \A k \in 1..MaxQueries : queries[k].op = "idle"

\* C12 as stated: a filterSubregions call leaves currentSelections without a
\* subregion, country and state; a filterCountries call leaves it without a
\* country and state; a filterStates call leaves it without a state.
C12_SelectionNarrowsTopDown ==
  [][\A k \in 1..MaxQueries :
       /\ (\E regionId \in RegionIds : FilterSubregions(k, regionId)) =>
            /\ currentSelections'.subregion = Null
            /\ currentSelections'.country = NoCountry
            /\ currentSelections'.state = Null
       /\ (\E subregionId \in SubregionIds : FilterCountries(k, subregionId)) =>
            /\ currentSelections'.country = NoCountry
            /\ currentSelections'.state = Null
       /\ (\E a \in CountryArgs : FilterStates(k, a.id, a.code)) =>
            currentSelections'.state = Null]_vars

\* C13: once the store is seeded no step starts a snapshot fetch, no step of
\* filterSubregions, filterCountries, filterStates or toggleModal starts a
\* city fetch, and a city fetch is started only by a filterCities call whose
\* country code has no entry in citiesCache.
C13_NavigationFetchesOnlyCities ==
  [][/\ pc' # "fetching"
     /\ FilterOrModalStep => ~StartsAnyCityFetch
     /\ \A code \in Codes :
          StartsCityFetch(code) =>
            /\ ~HasEntry(code)
            /\ lastNav'.op = "filterCities"
            /\ lastNav'.code = code
            /\ lastNav'.phase = "start"]_vars

\* every entry point has been used: the columns are filled, the modal shows
\* an item, the cities of IN are cached after a fetch
C13_Witness ==
  /\ display["states"].kind = "rows"
  /\ display["cities"].kind = "rows"
  /\ modal.item # NoItem
  /\ HasEntry("IN")
  /\ lastNav.op = "filterCities"
  /\ ~lastNav.fetch

\* C14: no step of a navigation call (a step that changes the navigation
\* state or a column) changes the version, the object stores, the indexes or
\* the records of the database.
C14_NavigationReadOnly ==
  [][(navVars' # navVars \/ display' # display) =>
       /\ stores' = stores
       /\ storeNames' = storeNames
       /\ indexNames' = indexNames
       /\ dbVersion' = dbVersion]_vars

\* after calls of all five entry points, with cities fetched and cached,
\* every collection still holds exactly its snapshot
C14_Witness ==
  /\ HasEntry("IN")
  /\ display["subregions"].kind = "rows"
  /\ display["countries"].kind = "rows"
  /\ display["states"].kind = "rows"
  /\ modal.open
  /\ modal.item = [id |-> 1]
  /\ \A c \in CollectionSet : stores[c] = Range(GoodSnapshot(c))

\* ========================================================================
\* Properties of the schema upgrade (checked under SpecUpgrade)
\* ========================================================================

\* C15 as stated: when openDB finds a stored version below DB_VERSION, the
\* database after the upgrade holds every object store and, on each of them, every
\* index of the schema, also on an object store that existed before, and no
\* record was changed or removed.
C15_AdditiveMigration ==
  [][UpgradeNeeded =>
       /\ dbVersion' = DB_VERSION
       /\ storeNames' = CollectionSet
       /\ \A c \in CollectionSet : SchemaIndexes(c) \subseteq indexNames'[c]
       /\ stores' = stores]_vars

\* ========================================================================
\* Properties of error handling and of the order of seeding (checked under
\* Spec)
\* ========================================================================

\* C16 as stated: every failure leads to an error the user sees: a rejected
\* openDB, a rejected deleteDatabase in the reset flow and a failed snapshot
\* fetch put an error status on the loading overlay, a failed index query of a
\* filter puts an error row in its column, a failed city fetch puts the error
\* row in the cities column.
C16_EveryFailureShown ==
  [][/\ OpenError => status'.kind = "Error"
     /\ DeleteError => status'.kind = "Error"
     /\ (\E f \in FetchFailures : FetchFails(f.kind, f.code)) => status'.kind = "Error"
     /\ \A k \in 1..MaxQueries :
          IndexQueryFails(k) => display'[queries[k].store].kind = "error"
     /\ \A k \in 1..MaxCalls :
          (\E kind \in FetchOutcomes \ {"ok"} : CityFetchFails(k, kind)) =>
            display'["cities"].kind = "error"]_vars

\* C17 as stated: once the insert transaction of a collection has failed on
\* a key that is already present, the collection holds nothing of the batch
\* and the run has reported an error.
C17_DuplicateKeyReported ==
  (pc = "hung" /\ COLLECTIONS[idx] \in runFetched) =>
    /\ stores[COLLECTIONS[idx]] = {}
    /\ status.kind = "Error"

\* C18: in every run the counts are queried in the order regions, subregions,
\* countries, states; when the count of a collection is queried, every
\* collection before it was skipped or has its insert completed; and at most
\* one collection, the current one, has a fetch or insert that did not
\* complete.
C18_SequentialSeeding ==
  /\ runCounted = {COLLECTIONS[j] : j \in 1..idx}
  /\ \A j \in 1..(idx - 1) : COLLECTIONS[j] \in runSkipped \cup runInserted
  /\ \A c \in runFetched \ runInserted : idx >= 1 /\ c = COLLECTIONS[idx]
  /\ runInserted \subseteq runFetched
  /\ runFetched \cap runSkipped = {}
  /\ pc \in {"fetching", "inserting"} => COLLECTIONS[idx] \in runFetched \ runInserted

\* the count of countries is being queried after regions and subregions were
\* fetched and inserted
C18_Witness ==
  /\ pc = "counting"
  /\ idx = 3
  /\ runInserted = {"regions", "subregions"}
  /\ runCounted = {"regions", "subregions", "countries"}

\* C19: in every run, once the count of subregions was queried or the fetch of
\* a collection other than regions was started, the regions column shows
\* exactly the records of the regions collection, each once.
C19_RegionsRenderedFirst ==
  ("subregions" \in runCounted \/ runFetched \ {"regions"} # {}) =>
    /\ display["regions"].kind = "rows"
    /\ Range(display["regions"].rows) = stores["regions"]
    /\ Len(display["regions"].rows) = Cardinality(stores["regions"])

\* the subregions count is pending and the two regions, present before this
\* run, are shown
C19_Witness ==
  /\ pc = "counting"
  /\ idx = 2
  /\ "regions" \in runSkipped
  /\ display["regions"].rows = << [id |-> 1], [id |-> 2] >>

\* ========================================================================
\* Properties of concurrent city calls (checked under SpecNav)
\* ========================================================================

\* C20: when the city fetch of a call resolves, the cities of that call's
\* state id are rendered whatever state id currentSelections holds by then,
\* and currentSelections is left as it is; so the cities column can show
\* the cities of a state other than the selected one.
C20_StaleResultApplied ==
  [][\A k \in 1..MaxCalls :
       CityFetchOk(k) =>
         /\ Range(display'["cities"].rows) =
              {r \in Range(RemoteCities(calls[k].code)) : r.state_id = calls[k].stateId}
         /\ currentSelections' = currentSelections]_vars

\* the call fetched last has filled the cities column with cities of a state
\* that is not the one in currentSelections
C20_Witness ==
  /\ lastNav.op = "filterCities"
  /\ lastNav.phase = "ok"
  /\ lastNav.fetch
  /\ display["cities"].kind = "rows"
  /\ currentSelections.state # lastNav.stateId
  /\ \A r \in Range(display["cities"].rows) : r.state_id # currentSelections.state

\* C21: calls for the same uncached code can be awaiting their fetches at the
\* same time; whichever fetch resolves, and in whichever order, the entry of
\* the code is the array the source serves (a later completion leaves the
\* value as the earlier one set it) and the column shows exactly the cities
\* of the resolving call's own state id taken from that entry.
C21_ConcurrentFetchesAgree ==
  [][\A k \in 1..MaxCalls :
       CityFetchOk(k) =>
         LET code == calls[k].code
         IN  /\ HasEntry(code) => citiesCache'[code] = citiesCache[code]
             /\ citiesCache'[code].present
             /\ citiesCache'[code].cities = RemoteCities(code)
             /\ \A i \in 1..Len(citiesCache'[code].cities) :
                  LET r == citiesCache'[code].cities[i]
                  IN  (r.state_id = calls[k].stateId) <=>
                        (r \in Range(display'["cities"].rows))
             /\ Range(display'["cities"].rows) \subseteq Range(citiesCache'[code].cities)]_vars

\* of two calls for IN that were fetching at the same time, the one for
\* state 200 has resolved and shows its city while the one for state 100 is
\* still awaiting its fetch
C21_Witness ==
  /\ HasEntry("IN")
  /\ lastNav = [op |-> "filterCities", stateId |-> 200, code |-> "IN",
                phase |-> "ok", fetch |-> TRUE, changed |-> FALSE]
  /\ display["cities"].rows = << [id |-> 2, state_id |-> 200],
                                 [id |-> 3, state_id |-> 200] >>
  /\ \E k \in 1..MaxCalls :
       /\ calls[k].pc = "fetching"
       /\ calls[k].stateId = 100
       /\ calls[k].code = "IN"

\* the collections of this run that were found non-empty or whose insert
\* transaction completed
Settled == runSkipped \cup runInserted

\* C22: while a collection is being processed the status names it, whether
\* it is then fetched or found present; the percentage reported on entering
\* the step is the share of collections already settled (0, 25, 50 or 75);
\* 100 is reported only when all four have settled; and the value goes down
\* only when an error is reported or a new session starts.
C22_ProgressReports ==
  /\ [](pc \in {"counting", "fetching", "inserting", "reading"} =>
          /\ status.kind = "Loading"
          /\ status.collection = COLLECTIONS[idx]
          /\ status.percent \in {0, 25, 50, 75})
  /\ [](pc = "counting" =>
          4 * status.percent = 100 * Cardinality(Settled))
  /\ [](status.percent = 100 => Settled = CollectionSet)
  /\ [][status'.percent < status.percent =>
          status'.kind \in {"Error", "initial"}]_vars

\* the fourth collection is entered at 75 after one collection was found
\* present and two were fetched and inserted
C22_Witness ==
  /\ pc = "counting"
  /\ idx = 4
  /\ status = Loading(75, "states")
  /\ runSkipped = {"regions"}
  /\ runInserted = {"subregions", "countries"}

\* C23: a run is complete (overlay hidden) only when every collection was
\* found non-empty or had its insert completed in this run and no error was
\* reported; the statistics are written only in a complete run, with the four
\* record counts (they stay unwritten when a read of updateStatistics
\* failed); they change only at the step that completes the run, and a
\* completed run stays completed until the page is loaded again.
C23_CompletionOnlyOnSuccess ==
  /\ [](pc \in {"stats", "done"} =>
          /\ Settled = CollectionSet
          /\ \A c \in runSkipped : stores[c] # {}
          /\ failure = NoFailure
          /\ status.kind = "Complete")
  /\ [](stats # InitialStats =>
          /\ pc = "done"
          /\ stats = [c \in CollectionSet |-> Cardinality(stores[c])])
  /\ [][stats' # stats =>
          \/ pc = "stats" /\ pc' = "done"
          \/ stats' = InitialStats]_vars
  /\ [][pc = "done" /\ pc' # "done" => stats' = InitialStats /\ status' = NoStatus]_vars

\* a completed run that skipped one collection and inserted the other three
C23_Witness ==
  /\ pc = "done"
  /\ runSkipped = {"regions"}
  /\ runInserted = CollectionSet \ {"regions"}
  /\ stats["regions"] = 2
  /\ stats["states"] = 2

\* the country codes whose cached array holds a record with this id
Holders(id) ==
  {code \in Codes : /\ citiesCache[code].present
                    /\ \E i \in 1..Len(citiesCache[code].cities) :
                         citiesCache[code].cities[i].id = id}

\* C24: toggleModal(id, 'cities'), opening the modal, shows a city exactly
\* when some array held in citiesCache has a record with that id, and then
\* the record shown is the first record with that id of such an array; the
\* call starts no fetch and no store query and leaves citiesCache as it was.
C24_CityLookup ==
  [][\A a \in ModalArgs :
       (a.type = "cities" /\ ~modal.open /\ ToggleModal(a.id, a.type)) =>
         /\ Holders(a.id) = {} => modal'.item = modal.item
         /\ Holders(a.id) # {} =>
              \E code \in Holders(a.id) :
                \E i \in 1..Len(citiesCache[code].cities) :
                  /\ citiesCache[code].cities[i].id = a.id
                  /\ \A j \in 1..(i - 1) : citiesCache[code].cities[j].id # a.id
                  /\ modal'.item = citiesCache[code].cities[i]
         /\ modal'.open
         /\ citiesCache' = citiesCache
         /\ calls' = calls
         /\ queries' = queries]_vars

\* the modal is open on city 3 of state 100, the first of the two records
\* with id 3 in the cached array of IN
C24_Witness ==
  /\ modal = [open |-> TRUE, item |-> [id |-> 3, state_id |-> 100]]
  /\ Holders(3) = {"IN"}

\* no navigation call other than the one of slot k is awaiting a result
OnlyCallInFlight(k) ==
  /\ \A j \in 1..MaxQueries : j # k => queries[j].op = "idle"
  /\ NoCityCallPending

\* C25: when a filter resolves successfully with no other navigation call in
\* flight, every column deeper than the one it fills shows the cleared
\* state: countries, states and cities after filterSubregions, states and
\* cities after filterCountries, cities after filterStates.
C25_DeeperColumnsCleared ==
  [][\A k \in 1..MaxQueries :
       (IndexQueryOk(k) /\ OnlyCallInFlight(k)) =>
         /\ queries[k].op = "filterSubregions" =>
              /\ display'["countries"] = ClearColumn
              /\ display'["states"] = ClearColumn
              /\ display'["cities"] = ClearColumn
         /\ queries[k].op = "filterCountries" =>
              /\ display'["states"] = ClearColumn
              /\ display'["cities"] = ClearColumn
         /\ queries[k].op = "filterStates" =>
              display'["cities"] = ClearColumn
         /\ display'[queries[k].store].kind \in {"rows", "none"}]_vars

\* after cities of IN were shown, a filter on the region resolved: the
\* subregions are listed and the three deeper columns are cleared
C25_Witness ==
  /\ HasEntry("IN")
  /\ display["subregions"].kind = "rows"
  /\ display["countries"] = ClearColumn
  /\ display["states"] = ClearColumn
  /\ display["cities"] = ClearColumn
  /\ \A j \in 1..MaxQueries : queries[j].op = "idle"
  /\ NoCityCallPending

\* C26: every seeding run eventually ends in completion (progress 100,
\* overlay hidden) or in a reported error, whatever the outcomes of the
\* store and network operations it awaits.
C26_RunTerminates == <>(pc \in {"done", "error"})

\* C27: the result of a filter that resolves during or after seeding is
\* computed from a collection that is empty or holds the complete snapshot,
\* never a strict subset of it.
C27_QuerySeesEmptyOrComplete ==
  [][\A k \in 1..MaxQueries :
       IndexQueryOk(k) =>
         LET c == queries[k].store
         IN  \/ stores[c] = {}
             \/ stores[c] = Range(Snapshot(c, remote[c]))]_vars

\* the city fetch that fails in this step is the one of the call that
\* started in the step before, with no other filterCities call in flight
FetchFailsRightAfterStart(k) ==
  /\ \E kind \in FetchOutcomes \ {"ok"} : CityFetchFails(k, kind)
  /\ lastNav.op = "filterCities"
  /\ lastNav.phase = "start"
  /\ lastNav.stateId = calls[k].stateId
  /\ lastNav.code = calls[k].code
  /\ \A j \in 1..MaxCalls : j # k => calls[j].pc = "idle"

\* the query that fails in this step is the one of the filter that started
\* in the step before, with no other query in flight
QueryFailsRightAfterStart(k) ==
  /\ IndexQueryFails(k)
  /\ lastNav.op = queries[k].op
  /\ lastNav.phase = "start"
  /\ \A j \in 1..MaxQueries : j # k => queries[j].op = "idle"

\* C28: a filterSubregions, filterCountries or filterStates call whose query
\* fails, and a filterCities call whose fetch fails, has changed no field of
\* currentSelections: when the failure is the step that follows the start of
\* the call, currentSelections is what it was before the call.
C28_FailureKeepsSelection ==
  [][/\ \A k \in 1..MaxQueries : QueryFailsRightAfterStart(k) => ~lastNav.changed
     /\ \A k \in 1..MaxCalls : FetchFailsRightAfterStart(k) => ~lastNav.changed]_vars

\* C29: filterSubregions('reset') only assigns the query string reset=true
\* for a page load: it changes neither currentSelections nor a displayed
\* column nor the database nor the seeding run of the live page; in a page
\* whose URL carries reset=true initializeData starts with the deletion, and
\* until the page is loaded again the session has opened no database and
\* counted, fetched and inserted nothing; the step that ends the deletion
\* leaves no store and asks for the page without reset=true; filterSubregions
\* with a region id requests no reset.
C29_ResetRequest ==
  /\ [][FilterSubregionsReset =>
          /\ navigation' = "reset"
          /\ currentSelections' = currentSelections
          /\ display' = display
          /\ UNCHANGED << persistentVars, seedingVars, queries, calls, citiesCache, modal >>]_vars
  /\ [][urlReset /\ WindowLoad => pc' \in {"queued", "deleting"}]_vars
  /\ [][urlReset /\ pc = "queued" /\ pc' \notin {"queued", "evaluated"} =>
          pc' = "deleting"]_vars
  /\ [](pc \in {"deleting", "navigating", "rejected"} => urlReset)
  /\ [](urlReset =>
          /\ ~db
          /\ runCounted = {} /\ runSkipped = {}
          /\ runFetched = {} /\ runInserted = {}
          /\ status = NoStatus)
  /\ [][pc = "deleting" /\ pc' = "navigating" =>
          /\ storeNames' = {}
          /\ \A c \in CollectionSet : stores'[c] = {}
          /\ navigation' = "plain"]_vars
  /\ [][\A k \in 1..MaxQueries, regionId \in RegionIds :
          FilterSubregions(k, regionId) =>
            /\ navigation' = navigation
            /\ pc' = pc
            /\ currentSelections'.region = regionId]_vars

\* filterSubregions('reset') was called on a completed page that shows the
\* subregions of region 1: the reload is requested, the page is still
\* complete, the selection and the columns are as they were and the store
\* still holds its records
C29_Witness ==
  /\ navigation = "reset"
  /\ pc = "done"
  /\ status.kind = "Complete"
  /\ currentSelections.region = 1
  /\ display["subregions"].kind = "rows"
  /\ \A c \in CollectionSet : stores[c] # {}

====
